---- MODULE Spec2Model ----
(***************************************************************************)
(* Cloudflare Dynamic DNS Updater (src/cloudflare_ddns.py, a bash script). *)
(* The model follows the script: every process started from the script is  *)
(* a slot of Procs with the command it runs (kind), its position (pc) and  *)
(* its shell locals; the cache file, the PID file and the provider's       *)
(* records are shared.                                                     *)
(***************************************************************************)
EXTENDS Integers, Sequences, FiniteSets, TLC

\* ------------------------------------------------------------------ bounds
\* Commands the user types in one run.
MaxCommands == 2

\* Processes of one run: the commands typed and the daemons they launch.
MaxProcs == 3

Procs == 1..MaxProcs

\* --------------------------------------------------------------- constants
\* The three IP-echo services of get_public_ip, in list order.
Services == <<"https://api.ipify.org", "https://ifconfig.me/ip", "https://icanhazip.com">>

NumServices == Len(Services)

TokenPlaceholder == "your_cloudflare_api_token_here"

ZonePlaceholder == "your_zone_id_here"

CF_RECORD_NAME == "subdomain.example.com"

\* ------------------------------------------------------------------- texts
\* Texts the script inspects character by character are sequences of
\* one-character strings.
Digit == {"0", "1", "2", "3", "4", "5", "6", "7", "8", "9"}

Space == {" ", "\t", "\n", "\r"}

QuadA == <<"1", ".", "2", ".", "3", ".", "4">>

QuadB == <<"9", "9", "9", ".", "9", "9", "9", ".", "9", "9", "9", ".", "9", "9", "9">>

BodyA == QuadA

BodyB == QuadB \o <<"\n">>

BodyEmpty == <<>>

BodyHtml == <<"<", "h", "1", ">">>

BodyLongGroup == <<"1", "2", "3", "4", ".", "1", ".", "1", ".", "1">>

\* What one curl to an IP-echo service can print: an address, an address
\* followed by a newline, nothing (timeout, connection failure), an error
\* page, digits that are no dotted quad.
EchoBodies == {BodyA, BodyB, BodyEmpty, BodyHtml, BodyLongGroup}

\* tr -d '[:space:]'
StripSpace(s) == SelectSeq(s, LAMBDA c : c \notin Space)

\* [[ $ip =~ ^[0-9]{1,3}\.[0-9]{1,3}\.[0-9]{1,3}\.[0-9]{1,3}$ ]], read left to
\* right: grp dots passed, digits digits read in the current group.
RECURSIVE QuadFrom(_, _, _, _)
QuadFrom(s, i, grp, digits) ==
    IF i > Len(s) THEN grp = 3 /\ digits >= 1
    ELSE IF s[i] \in Digit THEN digits < 3 /\ QuadFrom(s, i + 1, grp, digits + 1)
    ELSE IF s[i] = "." THEN digits >= 1 /\ grp < 3 /\ QuadFrom(s, i + 1, grp + 1, 0)
    ELSE FALSE

IsDottedQuadLoose(ip) == Len(ip) > 0 /\ \A i \in 1..Len(ip) : ip[i] \in Digit \cup {"."}

IsDottedQuad(ip) == QuadFrom(ip, 1, 0, 0)

\* ------------------------------------------------------------- cache file
NoFile == [exists |-> FALSE, content |-> <<>>]

RECURSIVE StripTrailingNewlines(_)
StripTrailingNewlines(s) ==
    IF Len(s) > 0 /\ s[Len(s)] = "\n" THEN StripTrailingNewlines(SubSeq(s, 1, Len(s) - 1))
    ELSE s

GetCachedIpRaw(file) == IF file.exists THEN file.content ELSE <<>>

\* get_cached_ip inside $( ): cat of the file when it exists, the trailing
\* newlines removed by the command substitution.
GetCachedIp(file) == IF file.exists THEN StripTrailingNewlines(file.content) ELSE <<>>

\* save_cached_ip: echo "$1" > "$IP_CACHE_FILE"
SaveCachedIp(ip) == [exists |-> TRUE, content |-> ip \o <<"\n">>]

\* How the redirection of save_cached_ip can go wrong: the file cannot be
\* opened (the old file stays), or it is opened, which empties it, and the
\* write fails.
CacheFaults == {"denied", "truncated"}

WriteCache(w, file, ip) ==
    IF w = "written" THEN SaveCachedIp(ip)
    ELSE IF w = "denied" THEN file
    ELSE [exists |-> TRUE, content |-> <<>>]

\* --------------------------------------------------------------- provider
\* A record of the zone is a function from the fields it has to their text
\* (content is an address); a response is the text after "success": and the
\* records of "result" in response order.
EmptyResponse == [success |-> "", result |-> <<>>]

FullRecord(c) == [id |-> "r1", type |-> "A", content |-> c, ttl |-> "300", proxied |-> "true"]

BareRecord(c) == [id |-> "r1", content |-> c]

SecondRecord == [id |-> "r2", type |-> "AAAA", content |-> <<":", ":", "1">>, ttl |-> "60", proxied |-> "false"]

\* The zone's records under CF_RECORD_NAME when the run starts.
ZoneInits ==
    {<<>>, <<FullRecord(QuadA)>>, <<FullRecord(QuadB)>>, <<BareRecord(QuadA)>>,
     <<BareRecord(QuadB), SecondRecord>>}

\* grep -o '"<field>":...' | head -1 | cut: the first occurrence in the
\* response text, empty when there is none.
ExtractFirst(result, f) ==
    LET idx == {i \in 1..Len(result) : f \in DOMAIN result[i]}
    IN IF idx = {} THEN ""
       ELSE result[CHOOSE i \in idx : \A j \in idx : i <= j][f]

\* [[ "$success" != "true" ]] / [[ "$update_success" == "true" ]]
IsSuccessLoose(response) == response.success # "false"

IsSuccess(response) == response.success = "true"

RecordIdFixed(response) == "r1"

RecordId(response) == ExtractFirst(response.result, "id")

OrDefault(text, default) == IF text = "" THEN default ELSE text

UpdateDataOldContent(new_ip, record_data) ==
    [type |-> OrDefault(ExtractFirst(record_data.result, "type"), "A"),
     name |-> CF_RECORD_NAME,
     content |-> record_data.result[1].content,
     ttl |-> OrDefault(ExtractFirst(record_data.result, "ttl"), "1"),
     proxied |-> OrDefault(ExtractFirst(record_data.result, "proxied"), "false")]

\* update_dns_record's request body.
UpdateData(new_ip, record_data) ==
    [type |-> OrDefault(ExtractFirst(record_data.result, "type"), "A"),
     name |-> CF_RECORD_NAME,
     content |-> new_ip,
     ttl |-> OrDefault(ExtractFirst(record_data.result, "ttl"), "1"),
     proxied |-> OrDefault(ExtractFirst(record_data.result, "proxied"), "false")]

NoData == [type |-> "", name |-> "", content |-> <<>>, ttl |-> "", proxied |-> ""]

\* How a call to the provider can go wrong: the provider answers with
\* success false; it applies an update but its answer is lost on the way
\* back; curl fails and prints nothing usable.
Faults == {"rejected", "lost", "error"}

\* The answer to GET dns_records?name=...: the records with success true, an
\* error object, or nothing usable.
FetchResponse(o, z) ==
    IF o = "ok" THEN [success |-> "true", result |-> z]
    ELSE IF o = "rejected" THEN [success |-> "false", result |-> <<>>]
    ELSE EmptyResponse

\* PUT dns_records/<id>: the record is replaced by the body.
ProviderApply(z, id, body) ==
    [i \in 1..Len(z) |->
        IF z[i].id = id
        THEN [id |-> id, type |-> body.type, content |-> body.content,
              ttl |-> body.ttl, proxied |-> body.proxied]
        ELSE z[i]]

UpdateApplied(o) == o \in {"ok", "lost"}

UpdateResponse(o) ==
    [success |-> IF o = "ok" THEN "true" ELSE IF o = "rejected" THEN "false" ELSE "",
     result |-> <<>>]

\* ----------------------------------------------------------------- config
Configs ==
    [token : {TokenPlaceholder, "token"}, zone : {ZonePlaceholder, "zone"}, tools : BOOLEAN]

ConfigErrorTokenOnly(c) == c.token = TokenPlaceholder \/ ~c.tools

\* validate_config exits 1.
ConfigError(c) == c.token = TokenPlaceholder \/ c.zone = ZonePlaceholder \/ ~c.tools

\* -------------------------------------------------------------- variables
VARIABLES
    config,           \* CF_API_TOKEN, CF_ZONE_ID, and whether curl and grep exist
    cacheFile,        \* $IP_CACHE_FILE
    pidFile,          \* $PID_FILE: 0 when absent, else the pid it holds
    zone,             \* the provider's records under CF_RECORD_NAME
    echo,             \* the bodies the IP-echo services answer with in this run
    faults,           \* the ways the provider's calls go wrong in this run
    kind,             \* per process: the command it runs ("none": not started)
    pc,               \* per process: its position in the script
    exitCode,         \* per process: -1 while running, else its exit status
    parent,           \* per process: the process that launched it (0: the user)
    current_ip,       \* check_and_update's local
    cached_ip,        \* check_and_update's local
    record_response,  \* check_and_update's local
    update_data,      \* update_dns_record's local: the body it sends
    update_response,  \* check_and_update's local
    pid,              \* start_daemon's pid ($!), stop_daemon's pid (from the file)
    seen,             \* per process: the bodies get_public_ip received, in order
    ops,              \* per process: cache and provider operations of the cycle
    outcome,          \* per process: how its latest cycle ended
    cacheAtStart,     \* per process: the cache file when its cycle started
    prevIp            \* per process: the address its previous cycle ended well with

shared == <<config, cacheFile, pidFile, zone, echo, faults>>

procState == <<kind, pc, exitCode, parent>>

locals == <<current_ip, cached_ip, record_response, update_data, update_response, pid>>

history == <<seen, ops, outcome, cacheAtStart, prevIp>>

vars == <<shared, procState, locals, history>>

Running(p) == kind[p] # "none" /\ pc[p] # "exited"

InCycle(p) == Running(p) /\ pc[p] \in {"resolve", "resolved", "fetch", "fetch_wait", "update", "update_wait"}

\* No process has run yet: exit codes, parents, locals and histories.
Fresh ==
    /\ exitCode = [p \in Procs |-> -1]
    /\ parent = [p \in Procs |-> 0]
    /\ current_ip = [p \in Procs |-> <<>>]
    /\ cached_ip = [p \in Procs |-> <<>>]
    /\ record_response = [p \in Procs |-> EmptyResponse]
    /\ update_data = [p \in Procs |-> NoData]
    /\ update_response = [p \in Procs |-> EmptyResponse]
    /\ pid = [p \in Procs |-> 0]
    /\ seen = [p \in Procs |-> <<>>]
    /\ ops = [p \in Procs |-> <<>>]
    /\ outcome = [p \in Procs |-> "none"]
    /\ cacheAtStart = [p \in Procs |-> NoFile]
    /\ prevIp = [p \in Procs |-> <<>>]

\* The files and the zone before the script runs: the cache file is absent
\* or as save_cached_ip left it.
World ==
    /\ config \in Configs
    /\ cacheFile \in {NoFile, SaveCachedIp(QuadA), SaveCachedIp(QuadB)}
    /\ pidFile = 0
    /\ zone \in ZoneInits
    /\ echo = EchoBodies
    /\ faults = Faults

\* ---------------------------------------------------------------- actions
\* Where a process is when check_and_update has returned: the monitor loop
\* at its sleep, the check command at the end of the script.
AfterCycleSleep(p) == "sleep"

AfterCycleReturned(p) == "returned"

AfterCycle(p) == IF kind[p] = "monitor" THEN "sleep" ELSE "returned"

\* A process that ended, or a function that returned, leaves no locals; what
\* is recorded of its cycle goes with them.
Forget(p) ==
    /\ current_ip' = [current_ip EXCEPT ![p] = <<>>]
    /\ cached_ip' = [cached_ip EXCEPT ![p] = <<>>]
    /\ record_response' = [record_response EXCEPT ![p] = EmptyResponse]
    /\ update_data' = [update_data EXCEPT ![p] = NoData]
    /\ update_response' = [update_response EXCEPT ![p] = EmptyResponse]
    /\ pid' = [pid EXCEPT ![p] = 0]
    /\ seen' = [seen EXCEPT ![p] = <<>>]
    /\ ops' = [ops EXCEPT ![p] = <<>>]
    /\ outcome' = [outcome EXCEPT ![p] = "none"]
    /\ cacheAtStart' = [cacheAtStart EXCEPT ![p] = NoFile]

\* validate_config, first thing in start, monitor and check.
Validate(p) ==
    /\ kind[p] \in {"start", "monitor", "check"}
    /\ pc[p] = "validate"
    /\ IF ConfigError(config)
       THEN /\ pc' = [pc EXCEPT ![p] = "exited"]
            /\ exitCode' = [exitCode EXCEPT ![p] = 1]
       ELSE /\ pc' = [pc EXCEPT ![p] = IF kind[p] = "start" THEN "sd_check" ELSE "ready"]
            /\ UNCHANGED exitCode
    /\ UNCHANGED <<shared, kind, parent, locals, history>>

\* check_and_update is entered.
StartCycle(p) ==
    /\ kind[p] \in {"monitor", "check"}
    /\ pc[p] = "ready"
    /\ pc' = [pc EXCEPT ![p] = "resolve"]
    /\ outcome' = [outcome EXCEPT ![p] = "running"]
    /\ cacheAtStart' = [cacheAtStart EXCEPT ![p] = cacheFile]
    /\ UNCHANGED <<shared, kind, exitCode, parent, locals, seen, ops, prevIp>>

\* One turn of get_public_ip's loop: curl --max-time 5 to the next service,
\* the pattern test, and the return when it matches or the list is exhausted.
QueryService(p) ==
    /\ pc[p] = "resolve"
    /\ \E body \in echo :
          LET ip == StripSpace(body)
              got == Append(seen[p], body)
          IN /\ seen' = [seen EXCEPT ![p] = got]
             /\ IF IsDottedQuad(ip)
                THEN /\ current_ip' = [current_ip EXCEPT ![p] = ip]
                     /\ pc' = [pc EXCEPT ![p] = "resolved"]
                ELSE /\ UNCHANGED current_ip
                     /\ pc' = [pc EXCEPT ![p] =
                                  IF Len(got) = NumServices THEN "resolved" ELSE "resolve"]
    /\ UNCHANGED <<shared, kind, exitCode, parent, cached_ip, record_response,
                   update_data, update_response, pid, ops, outcome, cacheAtStart, prevIp>>

\* [[ -z "$current_ip" ]]
ResolveFailedNever(ip) == FALSE

ResolveFailed(ip) == ip = <<>>

\* [[ "$current_ip" == "$cached_ip" ]]
IpUnchangedNever(cur, cached) == FALSE

IpUnchangedOrAbsent(cur, cached) == cur = cached \/ cached = <<>>

IpUnchanged(cur, cached) == cur = cached

\* Lines 125-141: the resolver's result is tested, the cache is read and
\* compared.
CompareCached(p) ==
    /\ pc[p] = "resolved"
    /\ IF ResolveFailed(current_ip[p])
       THEN /\ pc' = [pc EXCEPT ![p] = AfterCycle(p)]
            /\ outcome' = [outcome EXCEPT ![p] = "resolve_failed"]
            /\ UNCHANGED <<cached_ip, ops>>
       ELSE LET cached == GetCachedIp(cacheFile)
            IN /\ cached_ip' = [cached_ip EXCEPT ![p] = cached]
               /\ ops' = [ops EXCEPT ![p] = Append(@, "load")]
               /\ IF IpUnchanged(current_ip[p], cached)
                  THEN /\ pc' = [pc EXCEPT ![p] = AfterCycle(p)]
                       /\ outcome' = [outcome EXCEPT ![p] = "unchanged"]
                  ELSE /\ pc' = [pc EXCEPT ![p] = "fetch"]
                       /\ UNCHANGED outcome
    /\ UNCHANGED <<shared, kind, exitCode, parent, current_ip, record_response, update_data,
                   update_response, pid, seen, cacheAtStart, prevIp>>

\* get_dns_record's curl is started (no --max-time).
GetDnsRecordCall(p) ==
    /\ pc[p] = "fetch"
    /\ pc' = [pc EXCEPT ![p] = "fetch_wait"]
    /\ ops' = [ops EXCEPT ![p] = Append(@, "fetch")]
    /\ UNCHANGED <<shared, kind, exitCode, parent, locals, seen, outcome, cacheAtStart, prevIp>>

\* The curl returns; lines 147-158 test success and extract the record id.
GetDnsRecordReturn(p) ==
    /\ pc[p] = "fetch_wait"
    /\ \E o \in {"ok"} \cup ((faults \cap Faults) \ {"lost"}) :
          LET response == FetchResponse(o, zone)
          IN
          /\ record_response' = [record_response EXCEPT ![p] = response]
          /\ IF ~IsSuccess(response)
             THEN /\ pc' = [pc EXCEPT ![p] = AfterCycle(p)]
                  /\ outcome' = [outcome EXCEPT ![p] = "fetch_failed"]
             ELSE IF RecordId(response) = ""
             THEN /\ pc' = [pc EXCEPT ![p] = AfterCycle(p)]
                  /\ outcome' = [outcome EXCEPT ![p] = "not_found"]
             ELSE /\ pc' = [pc EXCEPT ![p] = "update"]
                  /\ UNCHANGED outcome
    /\ UNCHANGED <<shared, kind, exitCode, parent, current_ip, cached_ip, update_data,
                   update_response, pid, seen, ops, cacheAtStart, prevIp>>

\* update_dns_record builds the body and starts its curl (no --max-time).
UpdateDnsRecordCall(p) ==
    /\ pc[p] = "update"
    /\ pc' = [pc EXCEPT ![p] = "update_wait"]
    /\ update_data' = [update_data EXCEPT ![p] = UpdateData(current_ip[p], record_response[p])]
    /\ ops' = [ops EXCEPT ![p] = Append(@, "update")]
    /\ UNCHANGED <<shared, kind, exitCode, parent, current_ip, cached_ip, record_response,
                   update_response, pid, seen, outcome, cacheAtStart, prevIp>>

\* The curl returns; lines 164-173 test success and save the cache; the
\* status of save_cached_ip is not looked at.
UpdateDnsRecordReturn(p) ==
    /\ pc[p] = "update_wait"
    /\ \E o \in {"ok"} \cup (faults \cap Faults) :
          LET response == UpdateResponse(o)
          IN /\ update_response' = [update_response EXCEPT ![p] = response]
             /\ zone' = IF UpdateApplied(o)
                        THEN ProviderApply(zone, RecordId(record_response[p]), update_data[p])
                        ELSE zone
             /\ pc' = [pc EXCEPT ![p] = AfterCycle(p)]
             /\ IF IsSuccess(response)
                THEN /\ \E w \in {"written"} \cup (faults \cap CacheFaults) :
                            cacheFile' = WriteCache(w, cacheFile, current_ip[p])
                     /\ ops' = [ops EXCEPT ![p] = Append(@, "save")]
                     /\ outcome' = [outcome EXCEPT ![p] = "updated"]
                ELSE /\ outcome' = [outcome EXCEPT ![p] = "update_failed"]
                     /\ UNCHANGED <<cacheFile, ops>>
    /\ UNCHANGED <<config, pidFile, echo, faults, kind, exitCode, parent, current_ip, cached_ip,
                   record_response, update_data, pid, seen, cacheAtStart, prevIp>>

\* The status check_and_update returned: 0 when the cycle ended unchanged or
\* updated, else 1.
ReturnStatus(o) == IF o \in {"unchanged", "updated"} THEN 0 ELSE 1

\* monitor_loop: check_and_update has returned, sleep "$CHECK_INTERVAL" ends
\* and the loop turns.
Sleep(p) ==
    /\ kind[p] = "monitor"
    /\ pc[p] = "sleep"
    /\ pc' = [pc EXCEPT ![p] = "ready"]
    /\ prevIp' = [prevIp EXCEPT ![p] =
                     IF ReturnStatus(outcome[p]) = 0 THEN current_ip[p] ELSE <<>>]
    /\ Forget(p)
    /\ UNCHANGED <<shared, kind, exitCode, parent>>

\* main, check: the script ends with check_and_update's status.
CheckExit(p) ==
    /\ kind[p] = "check"
    /\ pc[p] = "returned"
    /\ pc' = [pc EXCEPT ![p] = "exited"]
    /\ exitCode' = [exitCode EXCEPT ![p] = ReturnStatus(outcome[p])]
    /\ Forget(p)
    /\ UNCHANGED <<shared, kind, parent, prevIp>>

Cycle(p) ==
    \/ StartCycle(p)
    \/ QueryService(p)
    \/ CompareCached(p)
    \/ GetDnsRecordCall(p)
    \/ GetDnsRecordReturn(p)
    \/ UpdateDnsRecordCall(p)
    \/ UpdateDnsRecordReturn(p)

\* ---------------------------------------------------------- specification
\* One process runs the reconciliation: "monitor" (the daemon's loop) or
\* "check" (one cycle).
Init ==
    /\ World
    /\ \E k \in {"monitor", "check"} :
          /\ kind = [p \in Procs |-> IF p = 1 THEN k ELSE "none"]
          /\ pc = [p \in Procs |-> IF p = 1 THEN "validate" ELSE "none"]
    /\ Fresh

Next == \E p \in Procs : Validate(p) \/ Cycle(p) \/ Sleep(p) \/ CheckExit(p)

Spec == Init /\ [][Next]_vars

\* ------------------------------------------------------------- supervisor
\* The commands a user types; "monitor" is what start_daemon launches.
UserCommands == {"start", "stop", "restart", "check"}

FirstPc(k) == IF k \in {"stop", "restart"} THEN "st_check" ELSE "validate"

\* The next unused process slot (pids are handed out in order, never again).
Unused == {p \in Procs : kind[p] = "none"}

IsNextPid(p) == p \in Unused /\ \A q \in Unused : p <= q

\* ps -p "$pid"
Alive(q) == q \in Procs /\ Running(q)

\* The user runs the script with command k.
RunCommand(p) ==
    /\ IsNextPid(p)
    /\ Cardinality({q \in Procs : kind[q] \in UserCommands}) < MaxCommands
    /\ \E k \in UserCommands :
          /\ kind' = [kind EXCEPT ![p] = k]
          /\ pc' = [pc EXCEPT ![p] = FirstPc(k)]
    /\ UNCHANGED <<shared, exitCode, parent, locals, history>>

\* start_daemon, lines 178-188: the PID file is tested and read, and the
\* process it names is looked up.
StartDaemonCheck(p) ==
    /\ kind[p] \in {"start", "restart"}
    /\ pc[p] = "sd_check"
    /\ IF pidFile # 0 /\ Alive(pidFile)
       THEN /\ pc' = [pc EXCEPT ![p] = "exited"]
            /\ exitCode' = [exitCode EXCEPT ![p] = 1]
       ELSE /\ pc' = [pc EXCEPT ![p] = IF pidFile # 0 THEN "sd_rm" ELSE "sd_spawn"]
            /\ UNCHANGED exitCode
    /\ UNCHANGED <<shared, kind, parent, locals, history>>

\* Line 186: rm -f "$PID_FILE" (stale).
StartDaemonRemoveStale(p) ==
    /\ pc[p] = "sd_rm"
    /\ pidFile' = 0
    /\ pc' = [pc EXCEPT ![p] = "sd_spawn"]
    /\ UNCHANGED <<config, cacheFile, zone, echo, faults, kind, exitCode, parent, locals, history>>

\* Lines 193-194: nohup "$0" monitor &; pid=$!
StartDaemonSpawn(p) ==
    /\ pc[p] = "sd_spawn"
    /\ \E q \in Procs :
          /\ IsNextPid(q)
          /\ kind' = [kind EXCEPT ![q] = "monitor"]
          /\ pc' = [pc EXCEPT ![q] = "validate", ![p] = "sd_write"]
          /\ parent' = [parent EXCEPT ![q] = p]
          /\ pid' = [pid EXCEPT ![p] = q]
    /\ UNCHANGED <<shared, exitCode, current_ip, cached_ip, record_response, update_data,
                   update_response, history>>

\* Line 195: echo $pid > "$PID_FILE"; the function returns and the script ends.
StartDaemonWritePid(p) ==
    /\ pc[p] = "sd_write"
    /\ pidFile' = pid[p]
    /\ pc' = [pc EXCEPT ![p] = "exited"]
    /\ exitCode' = [exitCode EXCEPT ![p] = 0]
    /\ pid' = [pid EXCEPT ![p] = 0]
    /\ UNCHANGED <<config, cacheFile, zone, echo, faults, kind, parent, current_ip, cached_ip,
                   record_response, update_data, update_response, history>>

\* stop_daemon, lines 205-211: no PID file exits the script; else the pid is
\* read and looked up.
StopDaemonCheck(p) ==
    /\ kind[p] \in {"stop", "restart"}
    /\ pc[p] = "st_check"
    /\ IF pidFile = 0
       THEN /\ pc' = [pc EXCEPT ![p] = "exited"]
            /\ exitCode' = [exitCode EXCEPT ![p] = 1]
            /\ UNCHANGED pid
       ELSE /\ pid' = [pid EXCEPT ![p] = pidFile]
            /\ pc' = [pc EXCEPT ![p] = IF Alive(pidFile) THEN "st_kill" ELSE "st_rm"]
            /\ UNCHANGED exitCode
    /\ UNCHANGED <<shared, kind, parent, current_ip, cached_ip, record_response, update_data,
                   update_response, history>>

\* Line 213: kill "$pid" ends the process wherever it is.
StopDaemonKill(p) ==
    /\ pc[p] = "st_kill"
    /\ LET q == pid[p]
       IN IF Alive(q)
          THEN /\ pc' = [pc EXCEPT ![q] = "exited", ![p] = "st_rm"]
               /\ exitCode' = [exitCode EXCEPT ![q] = 143]
               /\ prevIp' = [prevIp EXCEPT ![q] = <<>>]
               /\ Forget(q)
          ELSE /\ pc' = [pc EXCEPT ![p] = "st_rm"]
               /\ UNCHANGED <<exitCode, locals, history>>
    /\ UNCHANGED <<shared, kind, parent>>

\* Lines 214 and 218: rm -f "$PID_FILE"; stop ends, restart goes on.
StopDaemonRemovePid(p) ==
    /\ pc[p] = "st_rm"
    /\ pidFile' = 0
    /\ IF kind[p] = "restart"
       THEN /\ pc' = [pc EXCEPT ![p] = "rs_sleep"]
            /\ UNCHANGED exitCode
       ELSE /\ pc' = [pc EXCEPT ![p] = "exited"]
            /\ exitCode' = [exitCode EXCEPT ![p] = 0]
    /\ pid' = [pid EXCEPT ![p] = 0]
    /\ UNCHANGED <<config, cacheFile, zone, echo, faults, kind, parent, current_ip, cached_ip,
                   record_response, update_data, update_response, history>>

\* Line 301: sleep 2 between stop_daemon and start_daemon.
RestartSleep(p) ==
    /\ kind[p] = "restart"
    /\ pc[p] = "rs_sleep"
    /\ pc' = [pc EXCEPT ![p] = "sd_check"]
    /\ UNCHANGED <<shared, kind, exitCode, parent, locals, history>>

\* A daemon ends for a reason outside the script (a signal, a reboot); its
\* PID file stays behind, the stale file start_daemon looks for.
DaemonDies(p) ==
    /\ kind[p] = "monitor"
    /\ Running(p)
    /\ pc' = [pc EXCEPT ![p] = "exited"]
    /\ exitCode' = [exitCode EXCEPT ![p] = 137]
    /\ prevIp' = [prevIp EXCEPT ![p] = <<>>]
    /\ Forget(p)
    /\ UNCHANGED <<shared, kind, parent>>

StartDaemon(p) ==
    \/ StartDaemonCheck(p)
    \/ StartDaemonRemoveStale(p)
    \/ StartDaemonSpawn(p)
    \/ StartDaemonWritePid(p)

StopDaemon(p) ==
    \/ StopDaemonCheck(p)
    \/ StopDaemonKill(p)
    \/ StopDaemonRemovePid(p)

\* The pid in a PID file left behind by a daemon of an earlier boot; no
\* process of the run has it.
LeftoverPid == 9999

\* The whole script: no process yet, the user types commands. The services
\* answer with an address at the first try and the provider's calls go well
\* in these runs.
SysInit ==
    /\ config \in Configs
    /\ cacheFile \in {NoFile, SaveCachedIp(QuadA)}
    /\ pidFile \in {0, LeftoverPid}
    /\ zone = <<FullRecord(QuadA)>>
    /\ echo = {BodyB}
    /\ faults = {}
    /\ kind = [p \in Procs |-> "none"]
    /\ pc = [p \in Procs |-> "none"]
    /\ Fresh

SysNext ==
    \E p \in Procs :
        \/ RunCommand(p)
        \/ Validate(p)
        \/ StartDaemon(p)
        \/ StopDaemon(p)
        \/ RestartSleep(p)
        \/ Cycle(p)
        \/ Sleep(p)
        \/ CheckExit(p)
        \/ DaemonDies(p)

SysSpec == SysInit /\ [][SysNext]_vars

\* The reconciliation process under the scheduling the script gives it: every
\* step of the script itself is taken, and every curl --max-time 5 returns;
\* the curls of get_dns_record and update_dns_record have no --max-time and
\* return when the provider answers.
Fairness ==
    \A p \in Procs :
        /\ WF_vars(Validate(p))
        /\ WF_vars(StartCycle(p))
        /\ WF_vars(QueryService(p))
        /\ WF_vars(CompareCached(p))
        /\ WF_vars(GetDnsRecordCall(p))
        /\ WF_vars(UpdateDnsRecordCall(p))
        /\ WF_vars(Sleep(p))

LiveSpec == Init /\ [][Next]_vars /\ Fairness

\* The reconciliation process in an environment where the write of the
\* cache file can fail as well.
LoopInit ==
    /\ config \in Configs
    /\ cacheFile \in {NoFile, SaveCachedIp(QuadA), SaveCachedIp(QuadB)}
    /\ pidFile = 0
    /\ zone \in ZoneInits
    /\ echo = EchoBodies
    /\ faults = Faults \cup CacheFaults
    /\ \E k \in {"monitor", "check"} :
          /\ kind = [p \in Procs |-> IF p = 1 THEN k ELSE "none"]
          /\ pc = [p \in Procs |-> IF p = 1 THEN "validate" ELSE "none"]
    /\ Fresh

LoopSpec == LoopInit /\ [][Next]_vars /\ Fairness

\* ------------------------------------------------------------ convergence
\* The cache file and the record as the script's own cycles leave them when
\* nothing went wrong: no cache file yet, or the address it saved after the
\* provider confirmed it for the record.
Agree == cacheFile.exists => (zone # <<>> /\ cacheFile = SaveCachedIp(zone[1].content))

\* The environment settles: from here on the host's address is the one of
\* BodyB, every IP-echo service answers with it, and the provider answers
\* every call and applies every update.
Settle ==
    /\ echo # {BodyB} \/ faults # {}
    /\ echo' = {BodyB}
    /\ faults' = {}
    /\ UNCHANGED <<config, cacheFile, pidFile, zone, procState, locals, history>>

ConvergeNext == Next \/ Settle

\* Once the provider answers every call, the two curls without --max-time
\* return.
Answered ==
    \A p \in Procs :
        /\ WF_vars(faults = {} /\ GetDnsRecordReturn(p))
        /\ WF_vars(faults = {} /\ UpdateDnsRecordReturn(p))

\* The reconciliation process, started with cache and record in agreement,
\* in an environment that may settle.
ConvergeInit == Init /\ Agree

ConvergeSpec == ConvergeInit /\ [][ConvergeNext]_vars /\ Fairness /\ Answered

\* ------------------------------------------------------- claim vocabulary
\* The addresses of the runs, and the cache file that holds one (the address
\* and the newline echo adds).
Addrs == {QuadA, QuadB}

Holding(a) == [exists |-> TRUE, content |-> a \o <<"\n">>]

\* The address a service's body stands for: <<>> when the stripped body is
\* no dotted quad.
EchoAddress(body) ==
    IF body = BodyA THEN QuadA ELSE IF body = BodyB THEN QuadB ELSE <<>>

Did(p, o) == \E i \in 1..Len(ops[p]) : ops[p][i] = o

ProviderCalls(p) == SelectSeq(ops[p], LAMBDA o : o \in {"fetch", "update"})

Ended(p) == outcome[p] \notin {"none", "running"}

\* The fetch was made and did not yield a record; the update was made and
\* was not confirmed.
FetchFailed(p) ==
    Did(p, "fetch") /\ (record_response[p].success # "true" \/ record_response[p].result = <<>>)

UpdateFailed(p) == Did(p, "update") /\ update_response[p].success # "true"

Confirmed(p) == Did(p, "update") /\ update_response[p].success = "true"

\* C1: a cycle calls the provider only when the resolved address differs from
\* the cached one or there is no cache; a cycle that resolves the cached
\* address makes no fetch, no update and leaves the cache file as it was.
C1_NoProviderCallUnlessChanged ==
    \A p \in Procs :
        /\ ProviderCalls(p) # <<>> =>
              (~cacheAtStart[p].exists \/ cacheAtStart[p] # Holding(current_ip[p]))
        /\ (Ended(p) /\ current_ip[p] \in Addrs /\ cacheAtStart[p] = Holding(current_ip[p])) =>
              (ProviderCalls(p) = <<>> /\ ~Did(p, "save") /\ cacheFile = cacheAtStart[p])

C1_Witness ==
    \E p \in Procs :
        /\ outcome[p] = "unchanged"
        /\ current_ip[p] = QuadB
        /\ cacheAtStart[p] = Holding(QuadB)
        /\ ops[p] = <<"load">>

\* C2: at the end of a cycle the cache file was written if and only if the
\* update call's response said success true; otherwise it is as it was when
\* the cycle started, and when written it holds the resolved address.
C2_CacheWrittenIffConfirmed ==
    \A p \in Procs :
        Ended(p) =>
            /\ Did(p, "save") <=> Confirmed(p)
            /\ cacheFile # cacheAtStart[p] <=> Confirmed(p)
            /\ Confirmed(p) => cacheFile = Holding(current_ip[p])

C2_Witness ==
    \E p \in Procs :
        /\ outcome[p] = "update_failed"
        /\ update_response[p].success = ""
        /\ zone[1].content = current_ip[p]
        /\ cacheAtStart[p] = Holding(QuadA)
        /\ current_ip[p] = QuadB
        /\ cacheFile = cacheAtStart[p]

\* C3: cache a, resolved b # a, neither the fetch nor the update failing:
\* the cycle makes one fetch then one update with content b and ends with
\* the cache holding b.
C3_ChangedAddressUpdatesOnce ==
    \A p \in Procs :
        (/\ Ended(p)
         /\ current_ip[p] \in Addrs
         /\ \E a \in Addrs \ {current_ip[p]} : cacheAtStart[p] = Holding(a)
         /\ ~FetchFailed(p)
         /\ ~UpdateFailed(p)) =>
            /\ ProviderCalls(p) = <<"fetch", "update">>
            /\ update_data[p].content = current_ip[p]
            /\ cacheFile = Holding(current_ip[p])

C3_Witness ==
    \E p \in Procs :
        /\ outcome[p] = "updated"
        /\ cacheAtStart[p] = Holding(QuadA)
        /\ current_ip[p] = QuadB
        /\ ops[p] = <<"load", "fetch", "update", "save">>
        /\ cacheFile = Holding(QuadB)

\* Every service was asked and none answered with a dotted quad.
AllServicesFailed(p) ==
    /\ Len(seen[p]) = NumServices
    /\ \A i \in 1..NumServices : seen[p][i] \in {BodyEmpty, BodyHtml, BodyLongGroup}

\* C4: when every service failed, the cycle ends at once as a resolution
\* failure: no cache read, no cache write, no fetch, no update.
C4_ResolutionFailureEndsCycle ==
    \A p \in Procs :
        AllServicesFailed(p) =>
            /\ ops[p] = <<>>
            /\ cacheFile = cacheAtStart[p]
            /\ \/ pc[p] = "resolved" /\ outcome[p] = "running"
               \/ pc[p] \in {"sleep", "returned"} /\ outcome[p] = "resolve_failed"

C4_Witness ==
    \E p \in Procs :
        /\ AllServicesFailed(p)
        /\ seen[p][1] = BodyEmpty
        /\ outcome[p] = "resolve_failed"
        /\ cacheFile = Holding(QuadA)

\* C5: a cycle that follows a cycle which ended well (unchanged or updated)
\* and resolves the same address makes no provider call and leaves the
\* cache as the first cycle left it.
C5_SecondCycleIdempotent ==
    \A p \in Procs :
        (Ended(p) /\ prevIp[p] \in Addrs /\ current_ip[p] = prevIp[p]) =>
            /\ outcome[p] = "unchanged"
            /\ ProviderCalls(p) = <<>>
            /\ cacheFile = cacheAtStart[p]
            /\ cacheFile = Holding(prevIp[p])

C5_Witness ==
    \E p \in Procs :
        /\ Ended(p)
        /\ prevIp[p] = QuadB
        /\ current_ip[p] = QuadB
        /\ outcome[p] = "unchanged"

\* C6: get_public_ip asks the services in order and returns the stripped
\* body of the first one that is a dotted quad, asking none after it; it
\* fails only when all the services were asked and none was.
C6_FirstValidServiceWins ==
    \A p \in Procs :
        LET s == seen[p]
            valid == {i \in 1..Len(s) : EchoAddress(s[i]) # <<>>}
        IN IF valid # {}
           THEN /\ valid = {Len(s)}
                /\ current_ip[p] = EchoAddress(s[Len(s)])
                /\ pc[p] # "resolve"
           ELSE /\ current_ip[p] = <<>>
                /\ pc[p] = "resolve" => Len(s) < NumServices
                /\ (pc[p] # "resolve" /\ outcome[p] # "none") => Len(s) = NumServices

C6_Witness ==
    \E p \in Procs :
        /\ seen[p] = <<BodyHtml, BodyB>>
        /\ current_ip[p] = QuadB
        /\ pc[p] = "resolved"

\* C7: with no cache file, a cycle whose resolver succeeded fetches the
\* record and, the fetch yielding a record, sends an update with the resolved
\* address whatever the record's content; confirmed, the cache file holds
\* the resolved address.
C7_AbsentCacheForcesUpdate ==
    \A p \in Procs :
        (Ended(p) /\ ~cacheAtStart[p].exists /\ current_ip[p] \in Addrs) =>
            /\ Did(p, "fetch")
            /\ ~FetchFailed(p) =>
                  (Did(p, "update") /\ update_data[p].content = current_ip[p])
            /\ Confirmed(p) => cacheFile = Holding(current_ip[p])

C7_Witness ==
    \E p \in Procs :
        /\ outcome[p] = "updated"
        /\ ~cacheAtStart[p].exists
        /\ record_response[p].result[1].content = QuadA
        /\ current_ip[p] = QuadB
        /\ update_data[p].content = QuadB
        /\ cacheFile = Holding(QuadB)

\* The credential or the zone identifier is still the placeholder.
Placeholders(c) == c.token = TokenPlaceholder \/ c.zone = ZonePlaceholder

\* C8: with the token or the zone id at its placeholder, a start, monitor or
\* check process goes from validate_config straight to an exit with an error
\* status: it runs no cycle (no service asked, no cache or provider
\* operation) and a start launches no daemon.
C8_ConfigValidationFailsFast ==
    Placeholders(config) =>
        \A p \in Procs :
            kind[p] \in {"start", "monitor", "check"} =>
                /\ pc[p] \in {"validate", "exited"}
                /\ pc[p] = "exited" => exitCode[p] # 0
                /\ seen[p] = <<>> /\ ops[p] = <<>> /\ outcome[p] = "none"
                /\ kind[p] = "start" => \A q \in Procs : parent[q] # p

C8_Witness ==
    /\ config.zone = ZonePlaceholder
    /\ config.token # TokenPlaceholder
    /\ config.tools
    /\ \E p, r \in Procs :
          /\ kind[p] = "start" /\ pc[p] = "exited" /\ exitCode[p] = 1
          /\ kind[r] = "monitor" /\ pc[r] = "exited" /\ exitCode[r] = 1

\* C9: at most one execution of check_and_update is in progress at any time,
\* whatever commands are run and however they interleave.
C9_NoConcurrentCycles == Cardinality({p \in Procs : InCycle(p)}) <= 1

\* C10: every cycle that started ends, because each network call is bounded
\* by a timeout.
C10_EveryCycleEnds ==
    \A p \in Procs : (outcome[p] = "running") ~> (outcome[p] # "running")

\* The environment has settled on the address of BodyB and a monitor loop
\* with a valid configuration watches a record that exists.
Settled ==
    /\ echo = {BodyB}
    /\ faults = {}
    /\ kind[1] = "monitor"
    /\ ~Placeholders(config) /\ config.tools
    /\ zone # <<>>

\* The content of the record the script updates (the first under the name).
RecordContent == IF zone = <<>> THEN <<>> ELSE zone[1].content

\* C11: once the public address stays at b, the services return b and the
\* provider's calls succeed, the record's content and the cache file come to
\* hold b, whatever cycles came before.
C11_Convergence ==
    Settled ~> (RecordContent = QuadB /\ cacheFile = Holding(QuadB))

\* C16: at the end of a cycle, when the cache file holds an address the
\* record's content is that address (cache and record agreed at the start
\* and only the script edits the record). Stated for the cycles the script
\* itself reports as in order, "unchanged" or "updated".
C16_CacheRecordAgreement ==
    \A p \in Procs : \A c \in Addrs :
        (outcome[p] \in {"unchanged", "updated"} /\ cacheFile = Holding(c)) => RecordContent = c

\* The positions of a check command, in the order main's check branch goes
\* through them.
CheckPath ==
    <<"validate", "ready", "resolve", "resolved", "fetch", "fetch_wait", "update",
      "update_wait", "returned", "exited">>

Position(x) == CHOOSE i \in 1..Len(CheckPath) : CheckPath[i] = x

\* C12: a check command runs one cycle and exits: it only moves forward along
\* validate, the cycle, the return and the exit (no second cycle, no sleep of
\* the loop, no step of start_daemon or stop_daemon), it exits only after
\* its cycle ended or on a configuration error, it launches no process,
\* reads no pid and leaves the PID file as it is.
C12_CheckRunsOneCycle ==
    [][\A p \in Procs :
          kind[p] = "check" =>
              /\ \E i \in 1..Len(CheckPath) : CheckPath[i] = pc'[p]
              /\ Position(pc'[p]) >= Position(pc[p])
              /\ (pc[p] = "resolve" \/ pc'[p] # "resolve") \/ pc[p] = "ready"
              /\ (pc'[p] = "returned" /\ pc[p] # "returned") =>
                    (outcome'[p] \notin {"none", "running"} /\ seen'[p] # <<>>)
              /\ (pc'[p] = "exited" /\ pc[p] # "exited") =>
                    \/ pc[p] = "returned" /\ Ended(p)
                    \/ pc[p] = "validate" /\ (Placeholders(config) \/ ~config.tools)
              /\ \A q \in Procs : parent'[q] # p
              /\ pid'[p] = 0
              /\ pc'[p] # pc[p] => pidFile' = pidFile
      ]_vars

C12_Witness ==
    \E p, q \in Procs :
        /\ kind[p] = "check" /\ pc[p] = "exited" /\ exitCode[p] = 0
        /\ kind[q] = "monitor" /\ Running(q)
        /\ pidFile = q
        /\ cacheFile = Holding(QuadB)

\* The cache file after a write that failed once the file was opened.
EmptiedFile == [exists |-> TRUE, content |-> <<>>]

\* C13: no outcome of a cycle ends the monitor loop: a monitor process ends
\* only in validate_config; when a cycle has ended, whatever its outcome,
\* the loop is at its sleep, its next step is the end of the sleep, and
\* another cycle starts.
C13_FailuresLocalToCycle ==
    /\ [](\A p \in Procs :
             kind[p] = "monitor" =>
                 /\ Ended(p) => pc[p] = "sleep"
                 /\ pc[p] = "exited" =>
                       (exitCode[p] = 1 /\ (Placeholders(config) \/ ~config.tools)))
    /\ [][\A p \in Procs :
             kind[p] = "monitor" =>
                 /\ (pc'[p] = "exited" /\ pc[p] # "exited") => pc[p] = "validate"
                 /\ (Ended(p) /\ pc'[p] # pc[p]) => pc'[p] = "ready"
                 /\ (pc[p] = "ready" /\ pc'[p] # pc[p]) => outcome'[p] = "running"
         ]_vars
    /\ \A p \in Procs :
           (kind[p] = "monitor" /\ Ended(p)) ~> (pc[p] = "resolve" /\ outcome[p] = "running")

C13_Witness ==
    \E p \in Procs :
        /\ kind[p] = "monitor"
        /\ pc[p] = "resolve"
        /\ outcome[p] = "running"
        /\ cacheFile = EmptiedFile

\* The response holds a record with an id.
HasRecordId(response) ==
    \E i \in 1..Len(response.result) : "id" \in DOMAIN response.result[i]

\* C14: a cycle makes no provider call, one fetch, or one fetch followed by
\* one update; the update is made only when the fetch has returned with
\* success true and a record id, so a fetch that failed or found no record
\* ends the cycle without an update.
C14_ProviderCallsOrdered ==
    \A p \in Procs :
        /\ ProviderCalls(p) \in {<<>>, <<"fetch">>, <<"fetch", "update">>}
        /\ Did(p, "update") =>
              /\ pc[p] \notin {"fetch", "fetch_wait"}
              /\ record_response[p].success = "true"
              /\ HasRecordId(record_response[p])
        /\ (Did(p, "fetch") /\ pc[p] \notin {"fetch", "fetch_wait"}
               /\ (record_response[p].success # "true" \/ ~HasRecordId(record_response[p]))) =>
              (Ended(p) /\ ProviderCalls(p) = <<"fetch">> /\ cacheFile = cacheAtStart[p])

C14_Witness ==
    \E p \in Procs :
        /\ outcome[p] = "not_found"
        /\ record_response[p] = [success |-> "true", result |-> <<>>]
        /\ ops[p] = <<"load", "fetch">>
        /\ current_ip[p] = QuadB

\* A field of a record, or the default when the record does not have it.
FieldOr(rec, f, default) == IF f \in DOMAIN rec THEN rec[f] ELSE default

\* C15: the body of the update carries the resolved address as content, the
\* configured name, and as type, ttl and proxied the values of the first
\* record of the cycle's fetch response, each replaced by its default ("A",
\* 1, false) exactly when that record lacks the field; the id of the request
\* is that record's id.
C15_UpdateBodyFromFirstRecord ==
    \A p \in Procs :
        Did(p, "update") =>
            LET first == record_response[p].result[1]
            IN /\ update_data[p] =
                      [type |-> FieldOr(first, "type", "A"),
                       name |-> CF_RECORD_NAME,
                       content |-> current_ip[p],
                       ttl |-> FieldOr(first, "ttl", "1"),
                       proxied |-> FieldOr(first, "proxied", "false")]
               /\ RecordId(record_response[p]) = first.id

\* Every command the user typed has ended; the monitor processes running.
CommandsDone == \A p \in Procs : kind[p] \in UserCommands => pc[p] = "exited"

Daemons == {q \in Procs : kind[q] = "monitor" /\ pc[q] \notin {"none", "exited"}}

\* C17: at most one monitor process runs, and the PID file holds the pid of
\* the monitor that runs. Stated for the states in which no command is in
\* progress, that is for what the commands leave behind.
C17_SingleDaemon ==
    CommandsDone =>
        /\ Cardinality(Daemons) <= 1
        /\ \A q \in Daemons : pidFile = q

\* C18: with a valid configuration, a restart command that has ended has
\* launched a monitor process, or there is one running, whatever the PID
\* file was before (a live daemon's, a stale one, none).
C18_RestartLaunchesDaemon ==
    \A p \in Procs :
        (kind[p] = "restart" /\ pc[p] = "exited" /\ ~Placeholders(config) /\ config.tools) =>
            \E q \in Procs :
                kind[q] = "monitor" /\ (parent[q] = p \/ pc[q] # "exited")

====
